---- MODULE Spec2Model ----
(***************************************************************************)
(* A model of TokenValidator::validate (src/src/lib.rs).                   *)
(*                                                                         *)
(* Option<T> is modelled as a set with at most one element: None is {} and *)
(* Some(x) is {x}.  A HashMap<String, String> is a function whose DOMAIN   *)
(* is the set of keys present.  A compact token is the sequence of its     *)
(* '.'-separated segments.                                                 *)
(***************************************************************************)
EXTENDS Integers, Sequences, FiniteSets

VARIABLES validator, now, pc, token, validation, kid, response, keys,
          result, fetches, decodes, selected, readAt, steps

vars == <<validator, now, pc, token, validation, kid, response, keys,
          result, fetches, decodes, selected, readAt, steps>>

(* ------------------------------ bounds -------------------------------- *)

\* number of validate calls that may be in flight on the shared validator
NumCalls == 2
\* largest number of key records in a served key-set document
MaxKeys == 2
\* last value of the wall clock (epoch seconds)
MaxNow == 2

Calls == 1..NumCalls

(* --------------------------- Option helpers --------------------------- *)

None == {}
Some(x) == {x}
Unwrap(o) == CHOOSE x \in o : TRUE

(* ------------------------------ results ------------------------------- *)

NoInner == [type |-> "None", kind |-> "None"]
JwtError(k) == [type |-> "jsonwebtoken::errors::Error", kind |-> k]
SendRequestError == [type |-> "SendRequestError", kind |-> "Connect"]
JsonPayloadError == [type |-> "JsonPayloadError", kind |-> "Deserialize"]

NoResult == [kind |-> "Pending"]
Ok(claims) == [kind |-> "Ok", claims |-> claims]
Panic == [kind |-> "Panic"]
\* ValidationError { description, inner_error }
ValidationError(description, inner_error) ==
    [kind |-> "Err", description |-> description, inner_error |-> inner_error]
\* ValidationError::new
ValidationError_new(description) == ValidationError(Some(description), NoInner)
\* the three From impls: description None, inner_error Some(Box::new(err))
From(err) == ValidationError(None, err)

NoKidDescription == "the token header did not contain a Key ID"
NotFoundDescription ==
    "token failed validation as the referenced public key couldn't be found"

(* ------------------------------- tokens ------------------------------- *)

\* a segment that is not base64url text
NotBase64 == [b64 |-> FALSE]
\* a base64url segment whose bytes are not the expected JSON
NotJson == [b64 |-> TRUE, typ |-> "text"]
HeaderSeg(alg, k) == [b64 |-> TRUE, typ |-> "header", alg |-> alg, kid |-> k]
ClaimsSeg(exp, aud, iss, sub) ==
    [b64 |-> TRUE, typ |-> "claims", exp |-> exp, aud |-> aud, iss |-> iss,
     sub |-> sub]
\* an RS signature over the token's message made with the private key of `signer`
SigSeg(signer) == [b64 |-> TRUE, typ |-> "sig", signer |-> signer]

\* the RSA modulus published for a signer, and the usual exponent
Modulus(signer) == IF signer = "A" THEN "nA" ELSE "nB"
Exponent == "AQAB"

ProjectId == "proj"
Issuer == "https://securetoken/proj"
Url == "https://keys/jwk"

\* the validator as constructed by its owner
TheValidator ==
    [firebase_project_id |-> ProjectId,
     firebase_project_issuer |-> Issuer,
     firebase_public_keys_jwk_url |-> Url]

Headers == {HeaderSeg("RS256", Some("k1")), HeaderSeg("RS384", Some("k1"))}
Payloads ==
    {ClaimsSeg(exp, pr[1], pr[2], Some("u1")) :
        exp \in {1, 3},
        pr \in {<<Some(ProjectId), Some(Issuer)>>, <<Some("other"), Some(Issuer)>>,
                <<Some(ProjectId), Some("evil")>>, <<None, Some(Issuer)>>}}
    \cup {NotJson, NotBase64}
Sigs == {SigSeg("A"), SigSeg("B"), NotBase64}

GoodPayload == ClaimsSeg(3, Some(ProjectId), Some(Issuer), Some("u1"))

Tokens ==
    {<<h, p, s>> : h \in Headers, p \in Payloads, s \in Sigs}
    \cup {<<h, GoodPayload, SigSeg("A")>> :
            h \in {NotBase64, NotJson, HeaderSeg("RS256", None)}}
    \cup {<<HeaderSeg("RS256", Some("k1")), GoodPayload>>,
          <<HeaderSeg("RS256", Some("k1")), GoodPayload, SigSeg("A"), NotJson>>}

(* ------------------------------ key sets ------------------------------ *)

KeyRecords ==
    {[kid |-> "k1", n |-> "nA", e |-> Exponent],
     [kid |-> "k1", n |-> "nB", e |-> Exponent],
     [kid |-> "k2", n |-> "nA", e |-> Exponent],
     [n |-> "nA", e |-> Exponent],
     [kid |-> "k1", e |-> Exponent],
     [kid |-> "k1", n |-> "nA"]}

SeqsUpTo(S, n) == UNION {[1..k -> S] : k \in 0..n}
Docs == SeqsUpTo(KeyRecords, MaxKeys)

NoBody == [json |-> FALSE, keys |-> <<>>]
KeysBody(ks) == [json |-> TRUE, keys |-> ks]
NoResponse == [sent |-> FALSE, status |-> 0, body |-> NoBody]
\* what send() can complete with: a transport error, or a response of any status
Responses ==
    {NoResponse}
    \cup {[sent |-> TRUE, status |-> st, body |-> b] :
            st \in {200, 500}, b \in {NoBody} \cup {KeysBody(d) : d \in Docs}}

(* ---------------------- the calls of the library ---------------------- *)

\* HashMap::get
Get(m, k) == IF k \in DOMAIN m THEN Some(m[k]) ELSE None

\* Validation::new(alg): one algorithm, expiration enforced, no leeway
Validation_new(alg) ==
    [algorithms |-> {alg}, validate_exp |-> TRUE, leeway |-> 0,
     aud |-> None, iss |-> None]

Validation_NoAud(v) ==
    [Validation_new("RS256") EXCEPT !.iss = Some(v.firebase_project_issuer)]

\* the policy built at the top of validate
Validation(v) ==
    [Validation_new("RS256") EXCEPT
        !.aud = Some({v.firebase_project_id}),
        !.iss = Some(v.firebase_project_issuer)]

NoValidation == Validation_new("none")

\* Header::from_encoded
Header_from_encoded(seg) ==
    IF ~seg.b64 THEN [ok |-> FALSE, err |-> JwtError("Base64")]
    ELSE IF seg.typ # "header" THEN [ok |-> FALSE, err |-> JwtError("Json")]
    ELSE [ok |-> TRUE, header |-> seg]

\* the header part left by the two rsplitn(2, '.') calls: everything before
\* the last two segments; InvalidToken when there are fewer than three
HeaderPart(tok) == SubSeq(tok, 1, Len(tok) - 2)

\* jsonwebtoken::decode_header
decode_header(tok) ==
    IF Len(tok) < 3 THEN [ok |-> FALSE, err |-> JwtError("InvalidToken")]
    ELSE IF Len(HeaderPart(tok)) > 1
         THEN [ok |-> FALSE, err |-> JwtError("Base64")]
         ELSE Header_from_encoded(tok[1])

\* the ErrorKind::ExpiredSignature test of the library's claim validation
Expired(exp, t, leeway) == exp < t - leeway

\* RSA verification of the signature segment under the components (n, e)
SignatureVerifies(sig, n, e) ==
    sig.typ = "sig" /\ n = Modulus(sig.signer) /\ e = Exponent

\* the claim checks of the library's validate(): exp, then iss, then aud
validate_claims(claims, options, t) ==
    IF options.validate_exp /\ Expired(claims.exp, t, options.leeway)
    THEN Some(JwtError("ExpiredSignature"))
    ELSE IF options.iss # None /\ claims.iss # options.iss
    THEN Some(JwtError("InvalidIssuer"))
    ELSE IF options.aud # None
            /\ (claims.aud = None \/ Unwrap(claims.aud) \notin Unwrap(options.aud))
    THEN Some(JwtError("InvalidAudience"))
    ELSE None

\* serde's view of the payload as FirebaseClaims (fields the model carries)
FirebaseClaims(seg) ==
    [exp |-> seg.exp, aud |-> seg.aud, iss |-> seg.iss, sub |-> seg.sub]

FirebaseClaims_Remaining(seg, t) ==
    [exp |-> seg.exp - t, aud |-> seg.aud, iss |-> seg.iss, sub |-> seg.sub]

\* the claims handed back by decode at clock reading t
DecodedClaims(seg, t) == FirebaseClaims(seg)

\* jsonwebtoken::decode::<FirebaseClaims>(token,
\*     &DecodingKey::from_rsa_components(n, e), &validation) at clock reading t
decode(tok, n, e, options, t) ==
    LET h == decode_header(tok)
        sig == tok[Len(tok)]
        payload == tok[Len(tok) - 1]
    IN  IF ~h.ok THEN From(h.err)
        ELSE IF h.header.alg \notin options.algorithms
        THEN From(JwtError("InvalidAlgorithm"))
        ELSE IF ~sig.b64 THEN From(JwtError("Base64"))
        ELSE IF ~SignatureVerifies(sig, n, e)
        THEN From(JwtError("InvalidSignature"))
        ELSE IF ~payload.b64 THEN From(JwtError("Base64"))
        ELSE IF payload.typ # "claims" THEN From(JwtError("Json"))
        ELSE LET bad == validate_claims(FirebaseClaims(payload), options, t)
             IN  IF bad # None THEN From(Unwrap(bad))
                 ELSE Ok(DecodedClaims(payload, t))

(* ------------------------------ key lookup ---------------------------- *)

\* if let Some(cert_kid) = key.get("kid") { if kid.eq(cert_kid) {
Matches(key, k) == Get(key, "kid") = Some(k)

\* the last record of ks with the kid, 0 when there is none
LastMatch(ks, k) ==
    LET hits == {i \in 1..Len(ks) : Matches(ks[i], k)}
    IN  IF hits = {} THEN 0 ELSE CHOOSE i \in hits : \A j \in hits : j <= i

\* the first record that has any kid at all
FirstWithKid(ks, k) ==
    LET hits == {i \in 1..Len(ks) : Get(ks[i], "kid") # None}
    IN  IF hits = {} THEN 0 ELSE CHOOSE i \in hits : \A j \in hits : i <= j

RECURSIVE Scan(_, _, _)
\* for key in keys.keys, from record i on: the index the loop stops at, 0 when
\* it runs off the end
Scan(ks, k, i) ==
    IF i > Len(ks) THEN 0
    ELSE IF Matches(ks[i], k) THEN i
    ELSE Scan(ks, k, i + 1)

FirstMatch(ks, k) == Scan(ks, k, 1)

\* the key set some call has parsed, when there is one: a shared cache
CachedKeys(c) ==
    LET have == {d \in Calls : keys[d] # <<>>}
    IN  IF have = {} THEN keys[c] ELSE keys[CHOOSE d \in have : \A x \in have : d <= x]

\* the key set the loop of call c iterates: the Keys this call parsed
CallKeys(c) == keys[c]

(* ------------------------------- actions ------------------------------ *)

Step(name, ok) == [step |-> name, ok |-> ok]

Return(c, r) ==
    /\ result' = [result EXCEPT ![c] = r]
    /\ pc' = [pc EXCEPT ![c] = IF r.kind = "Panic" THEN "aborted" ELSE "done"]

Init ==
    /\ validator = TheValidator
    /\ now = 0
    /\ pc = [c \in Calls |-> "idle"]
    /\ token = [c \in Calls |-> <<>>]
    /\ validation = [c \in Calls |-> NoValidation]
    /\ kid = [c \in Calls |-> None]
    /\ response = [c \in Calls |-> NoResponse]
    /\ keys = [c \in Calls |-> <<>>]
    /\ result = [c \in Calls |-> NoResult]
    /\ fetches = [c \in Calls |-> 0]
    /\ decodes = [c \in Calls |-> 0]
    /\ selected = [c \in Calls |-> 0]
    /\ readAt = [c \in Calls |-> 0]
    /\ steps = [c \in Calls |-> <<>>]

\* the wall clock advances
Tick ==
    /\ now < MaxNow
    /\ now' = now + 1
    /\ UNCHANGED <<validator, pc, token, validation, kid, response, keys,
                   result, fetches, decodes, selected, readAt, steps>>

\* validate(&self, token) is entered with a token of toks; the policy is built
Call(c, toks) ==
    /\ pc[c] = "idle"
    /\ \E tok \in toks : token' = [token EXCEPT ![c] = tok]
    /\ validation' = [validation EXCEPT ![c] = Validation(validator)]
    /\ pc' = [pc EXCEPT ![c] = "header"]
    /\ UNCHANGED <<validator, now, kid, response, keys, result, fetches,
                   decodes, selected, readAt, steps>>

\* a header without kid is let through to the fetch
DecodeHeaderLenient(c) ==
    /\ pc[c] = "header"
    /\ LET h == decode_header(token[c])
       IN  /\ steps' = [steps EXCEPT ![c] = Append(@, Step("parse_header", h.ok))]
           /\ IF ~h.ok
              THEN Return(c, From(h.err)) /\ UNCHANGED kid
              ELSE /\ kid' = [kid EXCEPT ![c] =
                              IF h.header.kid = None THEN Some("") ELSE h.header.kid]
                   /\ pc' = [pc EXCEPT ![c] = "send"]
                   /\ UNCHANGED result
    /\ UNCHANGED <<validator, now, token, validation, response, keys, fetches,
                   decodes, selected, readAt>>

\* let header = decode_header(token)?; let kid = match header.kid { .. };
DecodeHeader(c) ==
    /\ pc[c] = "header"
    /\ LET h == decode_header(token[c])
       IN  IF ~h.ok
           THEN /\ Return(c, From(h.err))
                /\ steps' = [steps EXCEPT ![c] = Append(@, Step("parse_header", FALSE))]
                /\ UNCHANGED kid
           ELSE IF h.header.kid = None
           THEN /\ Return(c, ValidationError_new(NoKidDescription))
                /\ steps' = [steps EXCEPT ![c] = Append(@, Step("parse_header", FALSE))]
                /\ UNCHANGED kid
           ELSE /\ kid' = [kid EXCEPT ![c] = h.header.kid]
                /\ steps' = [steps EXCEPT ![c] = Append(@, Step("parse_header", TRUE))]
                /\ pc' = [pc EXCEPT ![c] = "send"]
                /\ UNCHANGED result
    /\ UNCHANGED <<validator, now, token, validation, response, keys, fetches,
                   decodes, selected, readAt>>

\* a failed send is tried once more before giving up
SendRetry(c, resps) ==
    /\ pc[c] = "send"
    /\ \E r \in resps :
        /\ response' = [response EXCEPT ![c] = r]
        /\ fetches' = [fetches EXCEPT ![c] = @ + 1]
        /\ IF r.sent
           THEN /\ pc' = [pc EXCEPT ![c] = "json"]
                /\ steps' = [steps EXCEPT ![c] = Append(@, Step("fetch", TRUE))]
                /\ UNCHANGED result
           ELSE IF fetches[c] = 0
           THEN UNCHANGED <<pc, result, steps>>
           ELSE /\ Return(c, From(SendRequestError))
                /\ steps' = [steps EXCEPT ![c] = Append(@, Step("fetch", FALSE))]
    /\ UNCHANGED <<validator, now, token, validation, kid, keys, decodes,
                   selected, readAt>>

\* client.get(self.firebase_public_keys_jwk_url.clone()).send().await?
\* completes with one of resps: Err only for a transport error, Ok(response)
\* for a response of any status
Send(c, resps) ==
    /\ pc[c] = "send"
    /\ \E r \in resps :
        /\ response' = [response EXCEPT ![c] = r]
        /\ fetches' = [fetches EXCEPT ![c] = @ + 1]
        /\ steps' = [steps EXCEPT ![c] = Append(@, Step("fetch", r.sent))]
        /\ IF r.sent
           THEN pc' = [pc EXCEPT ![c] = "json"] /\ UNCHANGED result
           ELSE Return(c, From(SendRequestError))
    /\ UNCHANGED <<validator, now, token, validation, kid, keys, decodes,
                   selected, readAt>>

\* let keys = response.json::<Keys>().await?
Json(c) ==
    /\ pc[c] = "json"
    /\ steps' = [steps EXCEPT ![c] = Append(@, Step("parse_keys", response[c].body.json))]
    /\ IF response[c].body.json
       THEN /\ keys' = [keys EXCEPT ![c] = response[c].body.keys]
            /\ pc' = [pc EXCEPT ![c] = "lookup"]
            /\ UNCHANGED result
       ELSE Return(c, From(JsonPayloadError)) /\ UNCHANGED keys
    /\ UNCHANGED <<validator, now, token, validation, kid, response, fetches,
                   decodes, selected, readAt>>

\* the first matching record under which the token decodes, when there is one
FirstVerifying(ks, k, tok, options, t) ==
    LET good == {i \in 1..Len(ks) :
                    /\ Matches(ks[i], k)
                    /\ Get(ks[i], "n") # None /\ Get(ks[i], "e") # None
                    /\ decode(tok, ks[i].n, ks[i].e, options, t).kind = "Ok"}
    IN  IF good = {} THEN FirstMatch(ks, k)
        ELSE CHOOSE i \in good : \A j \in good : i <= j

\* the loop goes on to the next record with the kid when a decode fails
LookupRetry(c) ==
    /\ pc[c] = "lookup"
    /\ LET ks == CallKeys(c)
           i == FirstVerifying(ks, Unwrap(kid[c]), token[c], validation[c], now)
       IN  /\ selected' = [selected EXCEPT ![c] = i]
           /\ IF i = 0
              THEN /\ Return(c, ValidationError_new(NotFoundDescription))
                   /\ steps' = [steps EXCEPT ![c] = Append(@, Step("locate", FALSE))]
                   /\ UNCHANGED <<decodes, readAt>>
              ELSE IF Get(ks[i], "n") = None \/ Get(ks[i], "e") = None
              THEN /\ Return(c, Panic)
                   /\ steps' = [steps EXCEPT ![c] = Append(@, Step("locate", TRUE))]
                   /\ UNCHANGED <<decodes, readAt>>
              ELSE LET r == decode(token[c], ks[i].n, ks[i].e, validation[c], now)
                   IN  /\ Return(c, r)
                       /\ decodes' = [decodes EXCEPT ![c] =
                              Cardinality({j \in 1..i : Matches(ks[j], Unwrap(kid[c]))})]
                       /\ readAt' = [readAt EXCEPT ![c] = now]
                       /\ steps' = [steps EXCEPT ![c] =
                              @ \o <<Step("locate", TRUE), Step("verify", r.kind = "Ok")>>]
    /\ UNCHANGED <<validator, now, token, validation, kid, response, keys, fetches>>

\* the for loop over keys.keys, the decode under the record it stops at, and
\* the Err after the loop
Lookup(c) ==
    /\ pc[c] = "lookup"
    /\ LET ks == CallKeys(c)
           i == FirstMatch(ks, Unwrap(kid[c]))
       IN  /\ selected' = [selected EXCEPT ![c] = i]
           /\ IF i = 0
              THEN /\ Return(c, ValidationError_new(NotFoundDescription))
                   /\ steps' = [steps EXCEPT ![c] = Append(@, Step("locate", FALSE))]
                   /\ UNCHANGED <<decodes, readAt>>
              ELSE IF Get(ks[i], "n") = None \/ Get(ks[i], "e") = None
              THEN \* key.get("n").unwrap() / key.get("e").unwrap() panics
                   /\ Return(c, Panic)
                   /\ steps' = [steps EXCEPT ![c] = Append(@, Step("locate", TRUE))]
                   /\ UNCHANGED <<decodes, readAt>>
              ELSE LET r == decode(token[c], Unwrap(Get(ks[i], "n")),
                                   Unwrap(Get(ks[i], "e")), validation[c], now)
                   IN  /\ Return(c, r)
                       /\ decodes' = [decodes EXCEPT ![c] = @ + 1]
                       /\ readAt' = [readAt EXCEPT ![c] = now]
                       /\ steps' = [steps EXCEPT ![c] =
                              @ \o <<Step("locate", TRUE), Step("verify", r.kind = "Ok")>>]
    /\ UNCHANGED <<validator, now, token, validation, kid, response, keys, fetches>>

(* --------------------------- specifications --------------------------- *)

\* one caller, every token and every response of the model
Next ==
    \/ Tick
    \/ Call(1, Tokens)
    \/ DecodeHeader(1)
    \/ Send(1, Responses)
    \/ Json(1)
    \/ Lookup(1)

Spec == Init /\ [][Next]_vars

\* a few callers sharing the validator, on tokens and responses that tell
\* their outcomes apart
ConcTokens ==
    {<<HeaderSeg("RS256", Some("k1")),
       ClaimsSeg(exp, Some(ProjectId), Some(Issuer), Some("u1")), SigSeg("A")>> :
        exp \in {1, 3}}
    \cup {<<HeaderSeg("RS256", Some("k1")), GoodPayload, SigSeg("B")>>,
          <<HeaderSeg("RS256", None), GoodPayload, SigSeg("A")>>}

ConcResponses ==
    {NoResponse,
     [sent |-> TRUE, status |-> 200, body |-> NoBody],
     [sent |-> TRUE, status |-> 200,
      body |-> KeysBody(<<[kid |-> "k1", n |-> "nA", e |-> Exponent]>>)],
     [sent |-> TRUE, status |-> 200,
      body |-> KeysBody(<<[kid |-> "k1", n |-> "nB", e |-> Exponent]>>)]}

NextConc ==
    \/ Tick
    \/ \E c \in Calls :
        \/ Call(c, ConcTokens)
        \/ DecodeHeader(c)
        \/ Send(c, ConcResponses)
        \/ Json(c)
        \/ Lookup(c)

SpecConc == Init /\ [][NextConc]_vars

(* ------------------- facts the claims are stated in ------------------- *)

Finished(c) == pc[c] \in {"done", "aborted"}

\* header parsing fails on the token: fewer or more than three segments, a
\* header segment that is not base64 or not a JSON header, or no kid in it
MalformedHeader(tok) ==
    \/ Len(tok) # 3
    \/ ~tok[1].b64
    \/ tok[1].typ # "header"
    \/ tok[1].kid = None

\* malformed in the wider sense: also a payload or signature segment that is
\* not base64
MalformedToken(tok) ==
    MalformedHeader(tok) \/ \E i \in 1..Len(tok) : ~tok[i].b64

MalformedInputError(r) ==
    \/ r = ValidationError_new(NoKidDescription)
    \/ /\ r.kind = "Err"
       /\ r.description = None
       /\ r.inner_error \in {JwtError("InvalidToken"), JwtError("Base64"), JwtError("Json")}

\* the key-set document call c fetched and parsed
Fetched(c) ==
    /\ pc[c] \in {"lookup", "done", "aborted"}
    /\ response[c].sent
    /\ response[c].body.json

Doc(c) == response[c].body.keys

\* the records of doc whose kid is k, in document order
Hits(doc, k) == {i \in 1..Len(doc) : "kid" \in DOMAIN doc[i] /\ doc[i].kid = k}
First(S) == CHOOSE i \in S : \A j \in S : i <= j

\* the record holds the public key of the token's signer
HoldsKeyOf(rec, sig) ==
    /\ "n" \in DOMAIN rec /\ "e" \in DOMAIN rec
    /\ sig.b64 /\ sig.typ = "sig"
    /\ rec.n = Modulus(sig.signer) /\ rec.e = Exponent

\* three segments: an RS256 header with a kid, a claims payload, a signature
WellFormed(tok) ==
    /\ ~MalformedHeader(tok)
    /\ tok[1].alg = "RS256"
    /\ tok[2].b64 /\ tok[2].typ = "claims"
    /\ tok[3].b64 /\ tok[3].typ = "sig"

\* audience, issuer and expiration of the payload satisfy the policy at time t
PolicySatisfied(p, t) ==
    /\ p.aud = Some(ProjectId)
    /\ p.iss = Some(Issuer)
    /\ ~(p.exp < t)

RequiredPolicy ==
    [algorithms |-> {"RS256"}, validate_exp |-> TRUE, leeway |-> 0,
     aud |-> Some({ProjectId}), iss |-> Some(Issuer)]

StepOrder == <<"parse_header", "fetch", "parse_keys", "locate", "verify">>

\* the steps a call has run are an initial part of the fixed order, and each
\* was started only after the one before it succeeded
InOrder(c) ==
    /\ Len(steps[c]) <= Len(StepOrder)
    /\ \A i \in 1..Len(steps[c]) :
        /\ steps[c][i].step = StepOrder[i]
        /\ i > 1 => steps[c][i - 1].ok
    /\ fetches[c] = Cardinality({i \in 1..Len(steps[c]) : steps[c][i].step = "fetch"})
    /\ decodes[c] = Cardinality({i \in 1..Len(steps[c]) : steps[c][i].step = "verify"})

(* -------------------------------- claims ------------------------------ *)

\* C1: a completed call has exactly one of Claims or an error, nothing is
\* returned before completion, and Claims are returned only when the header
\* carried a kid, the key set was fetched and parsed, a record with that kid
\* was selected, and the token verified under that record's key with the
\* policy RS256 / audience = project id / issuer = configured issuer /
\* expiration enforced; a token with another audience or issuer is never
\* accepted.
C1_ClaimsOnlyWhenVerified ==
    \A c \in Calls :
        /\ pc[c] = "done" => result[c].kind \in {"Ok", "Err"}
        /\ ~Finished(c) => result[c] = NoResult
        /\ result[c].kind = "Ok" =>
            LET tok == token[c] IN
            /\ pc[c] = "done"
            /\ ~MalformedHeader(tok)
            /\ kid[c] = tok[1].kid
            /\ fetches[c] = 1 /\ Fetched(c) /\ keys[c] = Doc(c)
            /\ selected[c] \in Hits(Doc(c), Unwrap(tok[1].kid))
            /\ decodes[c] = 1
            /\ validation[c] = RequiredPolicy
            /\ tok[1].alg = "RS256"
            /\ HoldsKeyOf(Doc(c)[selected[c]], tok[3])
            /\ tok[2].b64 /\ tok[2].typ = "claims"
            /\ PolicySatisfied(tok[2], readAt[c])
            /\ result[c].claims =
                 [exp |-> tok[2].exp, aud |-> tok[2].aud, iss |-> tok[2].iss,
                  sub |-> tok[2].sub]

C1_Witness ==
    \E c \in Calls : pc[c] = "done" /\ result[c].kind = "Ok"

\* C2 as stated: the steps run in the fixed order, none is started unless the
\* earlier ones succeeded, and every malformed token (wrong segment count, a
\* non-base64 segment, a header without kid) fails with a malformed-input
\* error with zero fetches.
C2_Original ==
    \A c \in Calls :
        /\ InOrder(c)
        /\ (pc[c] # "idle" /\ MalformedToken(token[c])) =>
            /\ fetches[c] = 0
            /\ Finished(c) => MalformedInputError(result[c])

\* C2 as amended: the same, for the tokens whose header fails to parse
\* (wrong segment count, header segment not base64 or not a JSON header,
\* header without kid); a payload or signature segment that is not base64 is
\* found only by the verify step, after the fetch.
C2_HeaderFailureBeforeFetch ==
    \A c \in Calls :
        /\ InOrder(c)
        /\ (pc[c] # "idle" /\ MalformedHeader(token[c])) =>
            /\ fetches[c] = 0
            /\ Finished(c) =>
                /\ MalformedInputError(result[c])
                /\ steps[c] = <<Step("parse_header", FALSE)>>
        /\ (pc[c] # "idle" /\ ~MalformedHeader(token[c])
                /\ MalformedToken(token[c]) /\ Finished(c)) =>
            steps[c][1].ok /\ fetches[c] = 1

C2_Witness ==
    \E c \in Calls :
        /\ pc[c] = "done"
        /\ MalformedHeader(token[c])
        /\ fetches[c] = 0
        /\ steps[c] = <<Step("parse_header", FALSE)>>

C4_NeverAborts ==
    \A c \in Calls :
        /\ pc[c] # "aborted"
        /\ Finished(c) => result[c].kind \in {"Ok", "Err"}

\* C5: a fetch that completes with a non-success status fails with the
\* transport error whatever the body; the body is not parsed and no Claims
\* are produced.
C5_NonSuccessStatusIsTransportFailure ==
    \A c \in Calls :
        (response[c].sent /\ response[c].status \notin 200..299) =>
            /\ keys[c] = <<>>
            /\ Finished(c) => result[c] = From(SendRequestError)

\* C6: when no record of the fetched key set has the header's kid (an empty
\* set, other kids, records without kid), the call fails with the
\* key-not-found error and no verification is attempted.
C6_NoRecordNotFound ==
    \A c \in Calls :
        (Fetched(c) /\ Hits(Doc(c), Unwrap(token[c][1].kid)) = {}) =>
            /\ decodes[c] = 0
            /\ pc[c] # "aborted"
            /\ pc[c] = "done" => result[c] = ValidationError_new(NotFoundDescription)

C6_Witness ==
    \E c \in Calls :
        /\ pc[c] = "done" /\ Fetched(c)
        /\ Hits(Doc(c), Unwrap(token[c][1].kid)) = {}
        /\ \E i \in 1..Len(Doc(c)) : HoldsKeyOf(Doc(c)[i], token[c][3])
        /\ result[c] = ValidationError_new(NotFoundDescription)

\* C7 as stated: a well-formed token signed by a key present in the fetched
\* key set, with audience, issuer and expiration satisfying the policy, the
\* fetch and parse having succeeded, gets Claims equal to its payload fields.
C7_Original ==
    \A c \in Calls :
        (/\ Finished(c) /\ Fetched(c)
         /\ WellFormed(token[c])
         /\ \E i \in 1..Len(Doc(c)) : HoldsKeyOf(Doc(c)[i], token[c][3])
         /\ PolicySatisfied(token[c][2], now))
        => result[c] = Ok([exp |-> token[c][2].exp, aud |-> token[c][2].aud,
                           iss |-> token[c][2].iss, sub |-> token[c][2].sub])

\* C7 as amended: the same, when the signing key is the one held by the
\* first record of the fetched key set whose kid equals the header's kid.
C7_SignedByFirstMatchingRecord ==
    \A c \in Calls :
        (/\ Finished(c) /\ Fetched(c)
         /\ WellFormed(token[c])
         /\ Hits(Doc(c), Unwrap(token[c][1].kid)) # {}
         /\ HoldsKeyOf(Doc(c)[First(Hits(Doc(c), Unwrap(token[c][1].kid)))],
                       token[c][3])
         /\ PolicySatisfied(token[c][2], now))
        => result[c] = Ok([exp |-> token[c][2].exp, aud |-> token[c][2].aud,
                           iss |-> token[c][2].iss, sub |-> token[c][2].sub])

C7_Witness ==
    \E c \in Calls :
        /\ pc[c] = "done" /\ Fetched(c) /\ WellFormed(token[c])
        /\ Cardinality(Hits(Doc(c), Unwrap(token[c][1].kid))) > 1
        /\ HoldsKeyOf(Doc(c)[First(Hits(Doc(c), Unwrap(token[c][1].kid)))],
                      token[c][3])
        /\ PolicySatisfied(token[c][2], now)
        /\ result[c].kind = "Ok"

\* C10: the lookup selects the first record in document order whose kid
\* equals the header's kid and verification is attempted at most once, with
\* that record; when it fails the call returns the rejection error even if a
\* later record with the same kid holds the signer's key.
C10_FirstOccurrenceWins ==
    \A c \in Calls :
        LET hits == IF Fetched(c) THEN Hits(Doc(c), Unwrap(token[c][1].kid)) ELSE {}
        IN  /\ decodes[c] <= 1
            /\ selected[c] # 0 => hits # {} /\ selected[c] = First(hits)
            /\ (Finished(c) /\ hits # {}) => selected[c] = First(hits)
            /\ (/\ pc[c] = "done" /\ hits # {}
                /\ ~HoldsKeyOf(Doc(c)[First(hits)], token[c][3])) =>
                   /\ result[c].kind = "Err"
                   /\ result[c].description = None
                   /\ result[c].inner_error.type = "jsonwebtoken::errors::Error"

C10_Witness ==
    \E c \in Calls :
        /\ pc[c] = "done" /\ Fetched(c) /\ WellFormed(token[c])
        /\ PolicySatisfied(token[c][2], now)
        /\ LET hits == Hits(Doc(c), Unwrap(token[c][1].kid))
           IN  /\ Cardinality(hits) > 1
               /\ ~HoldsKeyOf(Doc(c)[First(hits)], token[c][3])
               /\ \E j \in hits : HoldsKeyOf(Doc(c)[j], token[c][3])
        /\ decodes[c] = 1
        /\ result[c] = From(JwtError("InvalidSignature"))

\* validate run from start to end by a single caller: the token, the
\* completion of send() and the clock reading of the decode decide the outcome
RunAlone(tok, resp, t) ==
    LET h == decode_header(tok)
    IN  IF ~h.ok THEN From(h.err)
        ELSE IF h.header.kid = None THEN ValidationError_new(NoKidDescription)
        ELSE IF ~resp.sent THEN From(SendRequestError)
        ELSE IF ~resp.body.json THEN From(JsonPayloadError)
        ELSE LET hits == Hits(resp.body.keys, Unwrap(h.header.kid))
             IN  IF hits = {} THEN ValidationError_new(NotFoundDescription)
                 ELSE LET rec == resp.body.keys[First(hits)]
                      IN  IF ~("n" \in DOMAIN rec /\ "e" \in DOMAIN rec) THEN Panic
                          ELSE decode(tok, rec.n, rec.e, Validation(TheValidator), t)

\* C8: two calls with the same valid token that are served the same key set
\* return identical Claims; the first leaves the token, the validator and
\* the second call's outcome untouched.
C8_Idempotent ==
    /\ validator = TheValidator
    /\ \A c1, c2 \in Calls :
        (/\ c1 # c2
         /\ pc[c1] = "done" /\ pc[c2] = "done"
         /\ token[c1] = token[c2]
         /\ response[c1] = response[c2]
         /\ result[c1].kind = "Ok"
         /\ ~(token[c2][2].exp < readAt[c2]))
        => /\ result[c2] = result[c1]
           /\ result[c2].claims.exp = token[c2][2].exp

C8_Witness ==
    \E c1, c2 \in Calls :
        /\ c1 # c2
        /\ pc[c1] = "done" /\ pc[c2] = "done"
        /\ token[c1] = token[c2] /\ response[c1] = response[c2]
        /\ result[c1].kind = "Ok" /\ result[c2] = result[c1]
        /\ readAt[c1] < readAt[c2]

\* C9: calls in flight together on one validator do not interfere: each has
\* its own policy and its own key set, the configuration stays as
\* constructed, and each outcome is the one the call has when run alone on
\* its token and its fetch response.
C9_NoInterference ==
    /\ validator = TheValidator
    /\ \A c \in Calls :
        /\ pc[c] # "idle" => validation[c] = RequiredPolicy
        /\ keys[c] # <<>> => Fetched(c) /\ keys[c] = Doc(c)
        /\ Finished(c) => result[c] = RunAlone(token[c], response[c], readAt[c])

C9_Witness ==
    \E c1, c2 \in Calls :
        /\ c1 # c2
        /\ pc[c1] = "json" /\ response[c1].body.json
        /\ pc[c2] = "done" /\ Fetched(c2)
        /\ Doc(c1) # Doc(c2)
        /\ token[c1] = token[c2]
        /\ result[c2].kind = "Ok"

====
